---- MODULE Spec2Model ----
(***************************************************************************)
(* Blog post service (backend/backend_app.py): an in-memory list POSTS and *)
(* a counter next_id, read and mutated by five Flask request handlers      *)
(* (get_posts, create_post, delete_post, update_post, search_posts).       *)
(*                                                                         *)
(* Text is a sequence of code points, so that str.lower(), substring       *)
(* tests and lexicographic comparison are computed, not assumed.           *)
(* A JSON scalar is [kind, s]: kind "str" with the text in s, or kind      *)
(* "num" with the number as the only element of s.                         *)
(***************************************************************************)
EXTENDS Integers, Sequences, FiniteSets, TLC

VARIABLES POSTS, next_id, req, resp, assigned, deleted, threads

vars == <<POSTS, next_id, req, resp, assigned, deleted, threads>>

(* ------------------------------ bounds -------------------------------- *)

\* Creates are refused by the model (not by the program) once the counter
\* has reached MaxNextId.
MaxNextId == 5

\* post_id values of delete and update requests: every id a post can have
\* been given, and MaxNextId, which no post is ever given.
PostIds == 1..MaxNextId

(* ------------------------------- text --------------------------------- *)

Str(s) == [kind |-> "str", s |-> s]
Num(n) == [kind |-> "num", s |-> <<n>>]
NoVal == [kind |-> "none", s |-> <<>>]

IsStr(v) == v.kind = "str"

txt_title == <<116, 105, 116, 108, 101>>
txt_content == <<99, 111, 110, 116, 101, 110, 116>>
txt_First_post == <<70, 105, 114, 115, 116, 32, 112, 111, 115, 116>>
txt_Second_post == <<83, 101, 99, 111, 110, 100, 32, 112, 111, 115, 116>>
txt_first_content ==
    <<84, 104, 105, 115, 32, 105, 115, 32, 116, 104, 101, 32,
      102, 105, 114, 115, 116, 32, 112, 111, 115, 116, 46>>
txt_second_content ==
    <<84, 104, 105, 115, 32, 105, 115, 32, 116, 104, 101, 32,
      115, 101, 99, 111, 110, 100, 32, 112, 111, 115, 116, 46>>
txt_C == <<67>>
txt_second == <<115, 101, 99, 111, 110, 100>>
txt_FIRST == <<70, 73, 82, 83, 84>>

\* str.lower() on one code point (ASCII letters).
LowerChar(c) == IF c >= 65 /\ c <= 90 THEN c + 32 ELSE c

\* str.lower()
Lower(s) == [i \in 1..Len(s) |-> LowerChar(s[i])]

\* Python's `a in b` for two strings: a is a contiguous part of b.
Contains(b, a) ==
    \E i \in 0..(Len(b) - Len(a)) :
        \A j \in 1..Len(a) : b[i + j] = a[j]

\* Python's a < b on strings: lexicographic by code point.
StrLess(a, b) ==
    \E i \in 1..(Len(a) + 1) :
        /\ i <= Len(b)
        /\ \A j \in 1..(i - 1) : a[j] = b[j]
        /\ (i = Len(a) + 1 \/ a[i] < b[i])

(* ------------------------- posts and the seed ------------------------- *)

Post(id, title, content) == [id |-> id, title |-> title, content |-> content]

\* POSTS as the module is loaded.
SeedPosts ==
    << Post(1, Str(txt_First_post), Str(txt_first_content)),
       Post(2, Str(txt_Second_post), Str(txt_second_content)) >>

\* next_id as the module is loaded.
SeedNextId == 3

Ids(posts) == {posts[i].id : i \in 1..Len(posts)}

(* --------------------------- request bodies --------------------------- *)

\* A request body as it arrives.  kind is
\*   "absent"    no body and no JSON content type,
\*   "malformed" JSON content type, text that does not decode,
\*   "null", "object", "array", "string", "number", "bool": decoded JSON.
\* An object has the key set `keys` and the values of title and content
\* (NoVal when the key is absent); an array has `items`; a string has its
\* text in s; a number or a bool (0 false, 1 true) is the element of s.
Body(kind, keys, title, content, items, s) ==
    [kind |-> kind, keys |-> keys, title |-> title, content |-> content,
     items |-> items, s |-> s]

Plain(kind) == Body(kind, {}, NoVal, NoVal, <<>>, <<>>)
Obj(keys, title, content) ==
    Body("object", keys,
         IF "title" \in keys THEN title ELSE NoVal,
         IF "content" \in keys THEN content ELSE NoVal, <<>>, <<>>)
Arr(items) == Body("array", {}, NoVal, NoVal, items, <<>>)
StrBody(s) == Body("string", {}, NoVal, NoVal, <<>>, s)
NumBody(n) == Body("number", {}, NoVal, NoVal, <<>>, <<n>>)

\* Python's None, and a request ended by the framework with an HTTP error
\* raised inside request.get_json().
None == Plain("None")
Abort(status) == Body("abort", {}, NoVal, NoVal, <<>>, <<status>>)

\* The values and key sets of the object bodies tried: the empty string,
\* a number where text is expected, and a key the handlers never read.
TitleVals == {Str(<<>>), Num(7)}
ContentVals == {Str(txt_C)}
KeySets ==
    (SUBSET {"title", "content"}) \cup {{"id"}, {"id", "title", "content"}}

ObjectBodies ==
    {Obj(k, t, c) : k \in KeySets, t \in TitleVals, c \in ContentVals}

OtherBodies ==
    { Plain("absent"), Plain("malformed"), Plain("null"),
      Arr(<<>>), Arr(<<Str(txt_title), Str(txt_content)>>),
      StrBody(txt_title \o txt_content),
      NumBody(0), NumBody(5) }

Bodies == ObjectBodies \cup OtherBodies

\* request.get_json() with its default arguments (force=False,
\* silent=False): the values the call can produce for a body.  A decoded
\* body is returned as it is and JSON null is None.  A body that does not
\* decode makes the framework raise BadRequest (400).  A request without a
\* JSON content type gives None on Flask before 2.1 and an HTTP error (400,
\* later 415) on the releases after it; the repository pins no release.
get_json(body) ==
    CASE body.kind = "malformed" -> {Abort(400)}
      [] body.kind = "absent" -> {None, Abort(400), Abort(415)}
      [] body.kind = "null" -> {None}
      [] OTHER -> {body}

\* Python truth value of a decoded body: `not data`.
Falsy(data) ==
    CASE data.kind = "None" -> TRUE
      [] data.kind = "object" -> data.keys = {}
      [] data.kind = "array" -> data.items = <<>>
      [] data.kind = "string" -> data.s = <<>>
      [] OTHER -> data.s[1] = 0

\* `key in data` raises TypeError on a number and on a bool.
InRaises(data) == data.kind \in {"number", "bool"}

\* `key in data` for a dict (key present), a list (an element equal to the
\* key) and a string (the key is a substring).
HasKey(data, key, keytxt) ==
    CASE data.kind = "object" -> key \in data.keys
      [] data.kind = "array" ->
            \E i \in 1..Len(data.items) : data.items[i] = Str(keytxt)
      [] data.kind = "string" -> Contains(data.s, keytxt)
      [] OTHER -> FALSE

\* data[key] raises TypeError unless data is a dict.
IndexRaises(data) == data.kind # "object"

\* data.get raises AttributeError unless data is a dict.
GetRaises(data) == data.kind # "object"

\* data.get(key, default) on a dict.
Get(data, key, default) == IF key \in data.keys THEN data[key] ELSE default

(* ----------------------------- responses ------------------------------ *)

\* The response of a handler: the HTTP status, what it carries (kind), and
\* the payload: the posts of a list, search, create or update answer, the
\* names of a MissingFields error, the id of a delete or PostNotFound answer.
Resp(status, kind, posts, missing, id) ==
    [status |-> status, kind |-> kind, posts |-> posts,
     missing |-> missing, id |-> id]

NoResp == Resp(0, "none", <<>>, <<>>, 0)

\* A Python exception that leaves the handler: Flask answers 500.
Fault == Resp(500, "Fault", <<>>, <<>>, 0)

\* An HTTP error raised by the framework inside the handler.
HttpError(status) == Resp(status, "HttpError", <<>>, <<>>, 0)

\* What a handler leaves behind: the collection, the counter, the answer.
Out(posts, nid, r) == [posts |-> posts, nid |-> nid, resp |-> r]

(* ---------------------- get_posts: GET /api/posts --------------------- *)

\* A query parameter: p is whether it is in the query string, v its value.
Arg(p, v) == [p |-> p, v |-> v]
NoArg == Arg(FALSE, "")
NoText == Arg(FALSE, <<>>)

\* request.args.get(name): None when absent; here the value when present.
\* request.args.get(name, default): the default when absent.
ArgOr(a, default) == IF a.p THEN a.v ELSE default

\* Python truth value of request.args.get(name): present and not empty.
Truthy(a) == a.p /\ a.v # ""

\* The sort key of line 40: x[sort_field].lower().
Key(post, sort_field) == Lower(post[sort_field].s)

\* x[sort_field].lower() raises AttributeError on a value that is no string.
KeyRaises(posts, sort_field) ==
    \E i \in 1..Len(posts) : ~IsStr(posts[i][sort_field])

\* Order of the sort: a goes before b.
Before(a, b, reverse) == IF reverse THEN StrLess(b, a) ELSE StrLess(a, b)

\* One step of a stable sort: x, which came after every element of r, is
\* put before the first element it must precede, else at the end.
InsertStable(r, x, sort_field, reverse) ==
    LET first == {i \in 1..Len(r) :
                     Before(Key(x, sort_field), Key(r[i], sort_field), reverse)}
        at == IF first = {} THEN Len(r) + 1
              ELSE CHOOSE i \in first : \A j \in first : i <= j
    IN  SubSeq(r, 1, at - 1) \o <<x>> \o SubSeq(r, at, Len(r))

RECURSIVE SortedUpTo(_, _, _, _)
SortedUpTo(posts, n, sort_field, reverse) ==
    IF n = 0 THEN <<>>
    ELSE InsertStable(SortedUpTo(posts, n - 1, sort_field, reverse),
                      posts[n], sort_field, reverse)

\* sorted() called without reverse=reverse: ascending whatever is asked.
sorted_ascending(posts, sort_field, reverse) ==
    SortedUpTo(posts, Len(posts), sort_field, FALSE)

\* sorted(POSTS, key=lambda x: x[sort_field].lower(), reverse=reverse):
\* a new list, stable, also when reversed.
sorted(posts, sort_field, reverse) ==
    SortedUpTo(posts, Len(posts), sort_field, reverse)

\* get_posts sorting the list in place, POSTS.sort(key=..., reverse=...),
\* instead of building a new one.
get_posts_inplace(posts, nid, sort, dir) ==
    LET direction == ArgOr(dir, "asc") IN
    IF Truthy(sort) /\ sort.v \notin {"title", "content"}
    THEN Out(posts, nid, Resp(400, "InvalidSortField", <<>>, <<>>, 0))
    ELSE IF direction \notin {"asc", "desc"}
    THEN Out(posts, nid, Resp(400, "InvalidDirection", <<>>, <<>>, 0))
    ELSE IF ~Truthy(sort)
    THEN Out(posts, nid, Resp(200, "Posts", posts, <<>>, 0))
    ELSE IF KeyRaises(posts, sort.v)
    THEN Out(posts, nid, Fault)
    ELSE Out(sorted(posts, sort.v, direction = "desc"), nid,
             Resp(200, "Posts", sorted(posts, sort.v, direction = "desc"),
                  <<>>, 0))

get_posts(posts, nid, sort, dir) ==
    LET direction == ArgOr(dir, "asc") IN
    IF Truthy(sort) /\ sort.v \notin {"title", "content"}
    THEN Out(posts, nid, Resp(400, "InvalidSortField", <<>>, <<>>, 0))
    ELSE IF direction \notin {"asc", "desc"}
    THEN Out(posts, nid, Resp(400, "InvalidDirection", <<>>, <<>>, 0))
    ELSE IF ~Truthy(sort)
    THEN Out(posts, nid, Resp(200, "Posts", posts, <<>>, 0))
    ELSE IF KeyRaises(posts, sort.v)
    THEN Out(posts, nid, Fault)
    ELSE Out(posts, nid,
             Resp(200, "Posts", sorted(posts, sort.v, direction = "desc"),
                  <<>>, 0))

(* --------------------- create_post: POST /api/posts ------------------- *)

\* missing_fields with the test `not data.get(name)` in place of
\* `name not in data`: an empty value counts as missing.
missing_fields_empty(data) ==
    (IF Falsy(data) \/ ~HasKey(data, "title", txt_title)
        \/ data.title.s = <<>>
     THEN <<"title">> ELSE <<>>)
    \o
    (IF Falsy(data) \/ ~HasKey(data, "content", txt_content)
        \/ data.content.s = <<>>
     THEN <<"content">> ELSE <<>>)

\* Lines 57-61: the names appended to missing_fields, in order.
missing_fields(data) ==
    (IF Falsy(data) \/ ~HasKey(data, "title", txt_title)
     THEN <<"title">> ELSE <<>>)
    \o
    (IF Falsy(data) \/ ~HasKey(data, "content", txt_content)
     THEN <<"content">> ELSE <<>>)

\* Lines 66-70 with the two values exchanged.
new_post_swapped(nid, data) == Post(nid, data.content, data.title)

\* Lines 66-70.
new_post(nid, data) == Post(nid, data.title, data.content)

\* Line 72 without its effect: the counter is read but never advanced.
Increment_lost(nid) == nid

\* Line 72.
Increment(nid) == nid + 1

\* create_post taking the id from the size of the list instead of the
\* counter.
create_post_len(posts, nid, data) ==
    IF data.kind = "abort"
    THEN Out(posts, nid, HttpError(data.s[1]))
    ELSE IF ~Falsy(data) /\ InRaises(data)
    THEN Out(posts, nid, Fault)
    ELSE IF missing_fields(data) # <<>>
    THEN Out(posts, nid,
             Resp(400, "MissingFields", <<>>, missing_fields(data), 0))
    ELSE IF IndexRaises(data)
    THEN Out(posts, nid, Fault)
    ELSE Out(Append(posts, new_post(Len(posts) + 1, data)), Increment(nid),
             Resp(201, "Post", <<new_post(Len(posts) + 1, data)>>, <<>>,
                  Len(posts) + 1))

\* create_post advancing the counter before it validates the body.
create_post_early(posts, nid, data) ==
    IF data.kind = "abort"
    THEN Out(posts, nid, HttpError(data.s[1]))
    ELSE IF ~Falsy(data) /\ InRaises(data)
    THEN Out(posts, nid, Fault)
    ELSE IF missing_fields(data) # <<>>
    THEN Out(posts, Increment(nid),
             Resp(400, "MissingFields", <<>>, missing_fields(data), 0))
    ELSE IF IndexRaises(data)
    THEN Out(posts, nid, Fault)
    ELSE Out(Append(posts, new_post(nid, data)), Increment(nid),
             Resp(201, "Post", <<new_post(nid, data)>>, <<>>, nid))

\* create_post putting the new post first, POSTS.insert(0, new_post),
\* instead of last.
create_post_front(posts, nid, data) ==
    IF data.kind = "abort"
    THEN Out(posts, nid, HttpError(data.s[1]))
    ELSE IF ~Falsy(data) /\ InRaises(data)
    THEN Out(posts, nid, Fault)
    ELSE IF missing_fields(data) # <<>>
    THEN Out(posts, nid,
             Resp(400, "MissingFields", <<>>, missing_fields(data), 0))
    ELSE IF IndexRaises(data)
    THEN Out(posts, nid, Fault)
    ELSE Out(<<new_post(nid, data)>> \o posts, Increment(nid),
             Resp(201, "Post", <<new_post(nid, data)>>, <<>>, nid))

create_post(posts, nid, data) ==
    IF data.kind = "abort"
    THEN Out(posts, nid, HttpError(data.s[1]))
    ELSE IF ~Falsy(data) /\ InRaises(data)
    THEN Out(posts, nid, Fault)
    ELSE IF missing_fields(data) # <<>>
    THEN Out(posts, nid,
             Resp(400, "MissingFields", <<>>, missing_fields(data), 0))
    ELSE IF IndexRaises(data)
    THEN Out(posts, nid, Fault)
    ELSE Out(Append(posts, new_post(nid, data)), Increment(nid),
             Resp(201, "Post", <<new_post(nid, data)>>, <<>>, nid))

(* ---------------- delete_post: DELETE /api/posts/<post_id> ------------ *)

\* Line 90 as a removal by position, `del POSTS[post_id - 1]`, which is
\* right only while no post has been deleted.
Without_index(posts, post_id) ==
    IF post_id <= Len(posts)
    THEN SubSeq(posts, 1, post_id - 1) \o SubSeq(posts, post_id + 1, Len(posts))
    ELSE posts

\* Line 90: the posts whose id is not post_id, in their order.
Without(posts, post_id) ==
    LET keep(post) == post.id # post_id IN SelectSeq(posts, keep)

delete_post(posts, nid, post_id) ==
    IF \A i \in 1..Len(posts) : posts[i].id # post_id
    THEN Out(posts, nid, Resp(404, "PostNotFound", <<>>, <<>>, post_id))
    ELSE Out(Without(posts, post_id), nid,
             Resp(200, "Deleted", <<>>, <<>>, post_id))

(* ----------------- update_post: PUT /api/posts/<post_id> -------------- *)

\* Lines 110-111 with data.get(name) in place of data.get(name, old): a
\* field the body leaves out is overwritten with None.
Updated_blank(post, data) ==
    [post EXCEPT !.title = Get(data, "title", NoVal),
                 !.content = Get(data, "content", NoVal)]

\* Lines 110-111 on the post found.
Updated(post, data) ==
    [post EXCEPT !.title = Get(data, "title", post.title),
                 !.content = Get(data, "content", post.content)]

\* Lines 108-109: the first position holding post_id, 0 when there is none.
Find(posts, post_id) ==
    LET hits == {i \in 1..Len(posts) : posts[i].id = post_id} IN
    IF hits = {} THEN 0 ELSE CHOOSE i \in hits : \A j \in hits : i <= j

update_post(posts, nid, post_id, data) ==
    LET at == Find(posts, post_id) IN
    IF data.kind = "abort"
    THEN Out(posts, nid, HttpError(data.s[1]))
    ELSE IF data.kind = "None"
    THEN Out(posts, nid, Resp(400, "InvalidBody", <<>>, <<>>, 0))
    ELSE IF at = 0
    THEN Out(posts, nid, Resp(404, "PostNotFound", <<>>, <<>>, post_id))
    ELSE IF GetRaises(data)
    THEN Out(posts, nid, Fault)
    ELSE Out([posts EXCEPT ![at] = Updated(posts[at], data)], nid,
             Resp(200, "Post", <<Updated(posts[at], data)>>, <<>>, post_id))

(* ----------------- search_posts: GET /api/posts/search ---------------- *)

\* Lines 132-133: the test of one field against its lower-cased query.
Matches(value, query) ==
    IF query # <<>> THEN Contains(Lower(value.s), query) ELSE TRUE

\* post[field].lower() raises AttributeError on a value that is no string;
\* it is evaluated only for a query that is not empty.
MatchRaises(posts, title_query, content_query) ==
    \E i \in 1..Len(posts) :
        \/ title_query # <<>> /\ ~IsStr(posts[i].title)
        \/ content_query # <<>> /\ ~IsStr(posts[i].content)

search_posts(posts, nid, title, content) ==
    LET title_query == Lower(ArgOr(title, <<>>))
        content_query == Lower(ArgOr(content, <<>>))
        hit(post) == /\ Matches(post.title, title_query)
                     /\ Matches(post.content, content_query)
    IN  IF MatchRaises(posts, title_query, content_query)
        THEN Out(posts, nid, Fault)
        ELSE Out(posts, nid,
                 Resp(200, "Posts", SelectSeq(posts, hit), <<>>, 0))

(* ------------------------- the state machine -------------------------- *)

\* The request last handled: the operation of its route.
Req(op) == [op |-> op]

NoReq == Req("none")

SortArgs ==
    {NoArg, Arg(TRUE, ""), Arg(TRUE, "title"), Arg(TRUE, "content"),
     Arg(TRUE, "id")}
DirArgs == {NoArg, Arg(TRUE, ""), Arg(TRUE, "asc"), Arg(TRUE, "desc")}
TitleQueries == {NoText, Arg(TRUE, <<>>), Arg(TRUE, txt_second)}
ContentQueries == {NoText, Arg(TRUE, txt_FIRST)}

\* Requests handled one at a time: no handler runs beside the one in hand.
NoThreads == <<>>

\* The module as it is loaded.  assigned and deleted are history
\* variables: the ids posts were given, in the order they were given (the
\* seed first), and the ids whose delete was answered 200.
Init ==
    /\ POSTS = SeedPosts
    /\ next_id = SeedNextId
    /\ req = NoReq
    /\ resp = NoResp
    /\ assigned = <<1, 2>>
    /\ deleted = {}
    /\ threads = NoThreads

\* A handler ran to its return (or to its exception) on request r.
Handled(r, out) ==
    /\ out.nid <= MaxNextId
    /\ POSTS' = out.posts
    /\ next_id' = out.nid
    /\ req' = r
    /\ resp' = out.resp
    /\ threads' = threads

List(sort, dir) ==
    /\ Handled(Req("list"), get_posts(POSTS, next_id, sort, dir))
    /\ UNCHANGED <<assigned, deleted>>

Create(body) ==
    \E data \in get_json(body) :
        LET out == create_post(POSTS, next_id, data) IN
        /\ Handled(Req("create"), out)
        /\ assigned' = IF out.resp.status = 201
                       THEN Append(assigned, out.resp.id) ELSE assigned
        /\ UNCHANGED deleted

Delete(post_id) ==
    LET out == delete_post(POSTS, next_id, post_id) IN
    /\ Handled(Req("delete"), out)
    /\ deleted' = IF out.resp.status = 200
                  THEN deleted \cup {post_id} ELSE deleted
    /\ UNCHANGED assigned

Update(post_id, body) ==
    \E data \in get_json(body) :
        /\ Handled(Req("update"),
                   update_post(POSTS, next_id, post_id, data))
        /\ UNCHANGED <<assigned, deleted>>

Search(title, content) ==
    /\ Handled(Req("search"), search_posts(POSTS, next_id, title, content))
    /\ UNCHANGED <<assigned, deleted>>

Next ==
    \/ \E sort \in SortArgs, dir \in DirArgs : List(sort, dir)
    \/ \E body \in Bodies : Create(body)
    \/ \E post_id \in PostIds : Delete(post_id)
    \/ \E post_id \in PostIds, body \in Bodies : Update(post_id, body)
    \/ \E title \in TitleQueries, content \in ContentQueries :
          Search(title, content)

Spec == Init /\ [][Next]_vars

(* ------------------------------ claims -------------------------------- *)

Range(seq) == {seq[i] : i \in 1..Len(seq)}

NoRepeat(seq) == \A i, j \in 1..Len(seq) : seq[i] = seq[j] => i = j

MaxOf(seq) == CHOOSE m \in Range(seq) : \A x \in Range(seq) : x <= m

PostIdsOf(posts) == [i \in 1..Len(posts) |-> posts[i].id]

\* The body is a JSON object with both title and content.
HasBoth(body) == body.kind = "object" /\ {"title", "content"} \subseteq body.keys

\* The field names an object body lacks, title first.
AbsentNames(body) ==
    (IF "title" \in body.keys THEN <<>> ELSE <<"title">>)
    \o (IF "content" \in body.keys THEN <<>> ELSE <<"content">>)

\* C1: in every reachable state no two posts of the collection have the
\* same id, and no id was given twice: the ids given so far (the seed ids
\* 1 and 2 first) are pairwise different, also when the post that held one
\* has been deleted, and every stored id is one of them.
C1_UniqueIds ==
    /\ NoRepeat(PostIdsOf(POSTS))
    /\ NoRepeat(assigned)
    /\ Ids(POSTS) \subseteq Range(assigned)

\* C1 witness: the post given id 3 was deleted and a later create was
\* given id 4.
C1_Witness ==
    /\ 3 \in deleted
    /\ 4 \in Ids(POSTS)
    /\ assigned = <<1, 2, 3, 4>>

\* C2: the counter is 3 at the start, never decreases, grows by exactly 1
\* on every create answered 201, and is left as it is by every other
\* request, failed creates included.
C2_Counter ==
    /\ next_id = 3
    /\ [][ /\ next_id' >= next_id
           /\ (req'.op = "create" /\ resp'.status = 201)
                 => next_id' = next_id + 1
           /\ ~(req'.op = "create" /\ resp'.status = 201)
                 => next_id' = next_id ]_vars

\* C2 witness: two creates succeeded and a create then failed.
C2_Witness ==
    /\ next_id = 5
    /\ req.op = "create"
    /\ resp.kind = "MissingFields"

\* C3: a create whose body is an object with both title and content is
\* answered 201 with the record whose id is the counter before the
\* request, which is the greatest id given so far plus 1; the record, with
\* the title and content supplied, becomes the last element of the
\* collection and every post stored before keeps its place and values.
C3_CreateAppends ==
    [][ req'.op = "create" => \A body \in Bodies :
          (HasBoth(body) /\ Create(body)) =>
             LET record == [id |-> next_id, title |-> body.title,
                            content |-> body.content]
             IN  /\ resp'.status = 201
                 /\ resp'.posts = <<record>>
                 /\ next_id = MaxOf(assigned) + 1
                 /\ Len(POSTS') = Len(POSTS) + 1
                 /\ POSTS'[Len(POSTS')] = record
                 /\ \A i \in 1..Len(POSTS) : POSTS'[i] = POSTS[i] ]_vars

\* C3 witness: a create with an empty title was answered 201 after an
\* earlier post had been deleted.
C3_Witness ==
    /\ req.op = "create"
    /\ resp.status = 201
    /\ resp.posts[1].title = Str(<<>>)
    /\ deleted # {}
    /\ POSTS[Len(POSTS)] = resp.posts[1]

\* C4: a create whose body is an object lacking title, content or both is
\* answered 400 MissingFields naming exactly the absent fields, title
\* before content; a field present with the empty string is not named.
C4_MissingFields ==
    [][ req'.op = "create" => \A body \in ObjectBodies :
          (~HasBoth(body) /\ Create(body)) =>
             /\ resp'.status = 400
             /\ resp'.kind = "MissingFields"
             /\ resp'.missing = AbsentNames(body) ]_vars

\* C4 witness: a create was answered MissingFields naming content alone
\* (its title was present).
C4_Witness ==
    /\ req.op = "create"
    /\ resp.kind = "MissingFields"
    /\ resp.missing = <<"content">>

\* C5: a request answered with an error leaves the collection and the
\* counter as they were, and a create either appends its record and
\* advances the counter, or does neither.
C5_ErrorsChangeNothing ==
    [][ /\ resp'.status >= 400 => (POSTS' = POSTS /\ next_id' = next_id)
        /\ req'.op = "create" =>
              \/ POSTS' = POSTS /\ next_id' = next_id
              \/ /\ POSTS' = Append(POSTS, resp'.posts[1])
                 /\ next_id' = next_id + 1 ]_vars

\* C5 witness: each of the errors of create, delete and list was answered
\* at some point; here an update of an absent id after a successful create.
C5_Witness ==
    /\ req.op = "update"
    /\ resp.kind = "PostNotFound"
    /\ Len(POSTS) = 3

\* request.get_json() gives a value other than None for the body.
Parsed(body) == body.kind \notin {"absent", "malformed", "null"}

\* The position of the post with this id.
IndexOf(posts, id) == CHOOSE k \in 1..Len(posts) : posts[k].id = id

\* What the two handlers with a post_id leave behind when they run in
\* the current state.
AfterDelete(id) == delete_post(POSTS, next_id, id)
AfterUpdate(id, data) == update_post(POSTS, next_id, id, data)

NotFound(out) == out.resp.status = 404 /\ out.resp.kind = "PostNotFound"

\* A delete of a present id is answered 200, removes the one record with
\* that id, keeps the others in their order and leaves the counter.
DeleteRemovesOne ==
    \A id \in Ids(POSTS) :
        LET out == AfterDelete(id) IN
        /\ out.resp.status = 200
        /\ out.resp.id = id
        /\ out.nid = next_id
        /\ \E k \in 1..Len(POSTS) :
              /\ POSTS[k].id = id
              /\ out.posts = SubSeq(POSTS, 1, k - 1)
                             \o SubSeq(POSTS, k + 1, Len(POSTS))

\* An id whose delete was answered 200 is not stored, whatever requests
\* came after, and a delete of it is answered 404 PostNotFound.
DeletedStaysGone ==
    \A id \in deleted :
        /\ id \notin Ids(POSTS)
        /\ NotFound(AfterDelete(id))

C7_UpdateFrame ==
    \A id \in Ids(POSTS), body \in ObjectBodies :
        \A data \in get_json(body) :
            LET out == AfterUpdate(id, data)
                k == IndexOf(POSTS, id)
            IN  /\ out.resp.status = 200
                /\ Len(out.posts) = Len(POSTS)
                /\ out.resp.posts = <<out.posts[k]>>
                /\ out.posts[k].id = id
                /\ out.posts[k].title = IF "title" \in body.keys
                                        THEN body.title ELSE POSTS[k].title
                /\ out.posts[k].content = IF "content" \in body.keys
                                          THEN body.content
                                          ELSE POSTS[k].content
                /\ \A j \in 1..Len(POSTS) : j # k => out.posts[j] = POSTS[j]
                /\ out.nid = next_id

\* C7 witness: an update of id 2 that supplied content alone was answered
\* with the seed title and the new content.
C7_Witness ==
    /\ req.op = "update"
    /\ resp.status = 200
    /\ resp.posts = <<Post(2, Str(txt_Second_post), Str(txt_C))>>
    /\ POSTS[2] = resp.posts[1]

\* C8: an update whose body is not a JSON object (absent, malformed, null,
\* or an array, a string or a number) is answered 400 InvalidBody for every
\* post_id, present or not; it is never answered PostNotFound or 200.
C8_InvalidBodyFirst ==
    [][ req'.op = "update" => \A id \in PostIds, body \in Bodies :
          (body.kind # "object" /\ Update(id, body)) =>
             (resp'.status = 400 /\ resp'.kind = "InvalidBody") ]_vars

\* C9: every request is answered with the success response of its
\* operation or with one of InvalidSortField, InvalidDirection,
\* MissingFields, InvalidBody and PostNotFound, with a 4xx status; no
\* handler is left by an exception.
C9_NoUnhandledFault ==
    \/ resp.kind = "none"
    \/ resp.kind \in {"Posts", "Post", "Deleted"} /\ resp.status \in {200, 201}
    \/ /\ resp.kind \in {"InvalidSortField", "InvalidDirection",
                         "MissingFields", "InvalidBody", "PostNotFound"}
       /\ resp.status \in {400, 404}

\* C10: a create with a malformed or absent body is answered 400
\* MissingFields naming title then content, and changes neither the
\* collection nor the counter.
C10_MalformedIsMissing ==
    [][ req'.op = "create" =>
          \A body \in {Plain("absent"), Plain("malformed")} :
             Create(body) =>
                /\ resp'.status = 400
                /\ resp'.kind = "MissingFields"
                /\ resp'.missing = <<"title", "content">>
                /\ POSTS' = POSTS
                /\ next_id' = next_id ]_vars

\* What the two read handlers leave behind when they run in the current
\* state.
AfterList(sort, dir) == get_posts(POSTS, next_id, sort, dir)
AfterSearch(title, content) == search_posts(POSTS, next_id, title, content)

\* The position at which an id was given.
GivenAt(id) == CHOOSE i \in 1..Len(assigned) : assigned[i] = id

\* The posts are stored in the order in which their ids were given.
InsertionOrder(posts) ==
    \A i, j \in 1..Len(posts) :
        i < j => GivenAt(posts[i].id) < GivenAt(posts[j].id)

\* C13: in every reachable state, so after any sorted lists and searches,
\* the collection is in insertion order, a list without sort (with any
\* valid direction) is answered with the stored posts in that order, and
\* no list and no search, whatever its parameters, changes the stored
\* posts, their order or the counter.
C13_ListKeepsOrder ==
    /\ InsertionOrder(POSTS)
    /\ \A dir \in {NoArg, Arg(TRUE, "asc"), Arg(TRUE, "desc")} :
          AfterList(NoArg, dir).resp = Resp(200, "Posts", POSTS, <<>>, 0)
    /\ \A sort \in SortArgs, dir \in DirArgs :
          /\ AfterList(sort, dir).posts = POSTS
          /\ AfterList(sort, dir).nid = next_id
    /\ \A title \in TitleQueries, content \in ContentQueries :
          /\ AfterSearch(title, content).posts = POSTS
          /\ AfterSearch(title, content).nid = next_id

\* C13 witness: a list was answered with all the posts in an order other
\* than the stored one (a sorted list), the stored order being the
\* insertion order still, after a delete and a create.
C13_Witness ==
    /\ req.op = "list"
    /\ resp.kind = "Posts"
    /\ Len(resp.posts) = Len(POSTS)
    /\ resp.posts # POSTS
    /\ PostIdsOf(POSTS) = <<2, 3>>

\* The two lists hold the same ids, each as often in one as in the other.
SameIds(a, b) ==
    \A id \in Ids(a) \cup Ids(b) :
        Cardinality({i \in 1..Len(a) : a[i].id = id})
            = Cardinality({i \in 1..Len(b) : b[i].id = id})

\* r is in the order of the lower-cased field: never a greater key before
\* a smaller one (reverse: never a smaller before a greater).
InKeyOrder(r, field, reverse) ==
    \A i, j \in 1..Len(r) :
        i < j => ~Before(Lower(r[j][field].s), Lower(r[i][field].s), reverse)

\* Posts of r with equal lower-cased keys are in their stored order.
TiesKeepOrder(r, field) ==
    \A i, j \in 1..Len(r) :
        (i < j /\ Lower(r[i][field].s) = Lower(r[j][field].s))
            => IndexOf(POSTS, r[i].id) < IndexOf(POSTS, r[j].id)

\* The answer to a list sorted by field in the direction dir.
SortContract(field, dir) ==
    LET out == AfterList(Arg(TRUE, field), dir)
        r == out.resp.posts
    IN  /\ out.resp.status = 200
        /\ out.resp.kind = "Posts"
        /\ SameIds(r, POSTS)
        /\ InKeyOrder(r, field, dir = Arg(TRUE, "desc"))
        /\ TiesKeepOrder(r, field)

\* C14: in every collection state, for sort title or content and direction
\* asc, desc or absent, the list answer is a permutation of the stored
\* posts in the order of the lower-cased field, ascending or descending,
\* with posts of equal keys in insertion order in both directions.
C14_SortedList ==
    \A field \in {"title", "content"} :
        \A dir \in {NoArg, Arg(TRUE, "asc"), Arg(TRUE, "desc")} :
            SortContract(field, dir)

\* C15: a list whose sort is present and is neither title nor content (the
\* empty string included) is answered 400 InvalidSortField, also when the
\* direction is invalid too; otherwise a list whose direction is present
\* and is neither asc nor desc is answered 400 InvalidDirection, with or
\* without sort.
C15_ListValidation ==
    \A sort \in SortArgs, dir \in DirArgs :
        LET r == AfterList(sort, dir).resp
            badsort == sort.p /\ sort.v \notin {"title", "content"}
            baddir == dir.p /\ dir.v \notin {"asc", "desc"}
        IN  /\ badsort => (r.status = 400 /\ r.kind = "InvalidSortField")
            /\ (baddir /\ ~badsort) =>
                  (r.status = 400 /\ r.kind = "InvalidDirection")

\* The filter is absent or empty, or the lower-cased value contains the
\* lower-cased filter.
FilterAccepts(filter, value) ==
    \/ ~filter.p
    \/ filter.v = <<>>
    \/ Contains(Lower(value.s), Lower(filter.v))

\* The posts both filters accept, in their stored order.
Accepted(title, content) ==
    LET ok(post) == /\ FilterAccepts(title, post.title)
                    /\ FilterAccepts(content, post.content)
    IN  SelectSeq(POSTS, ok)

\* C16: in every collection state and for every pair of title and content
\* filters (each absent, empty or not empty) a search is answered 200 with
\* exactly the posts both filters accept, in insertion order; without
\* filters, with all the posts.
C16_SearchResult ==
    /\ \A title \in TitleQueries, content \in ContentQueries :
          AfterSearch(title, content).resp
              = Resp(200, "Posts", Accepted(title, content), <<>>, 0)
    /\ AfterSearch(NoText, NoText).resp.posts = POSTS

\* C17: in every state reached through requests the service accepted,
\* a search with any filters and a list with absent or valid sort and
\* direction are answered 200 with a list, which may be empty.
C17_ReadsSucceed ==
    /\ \A sort \in {NoArg, Arg(TRUE, "title"), Arg(TRUE, "content")} :
          \A dir \in {NoArg, Arg(TRUE, "asc"), Arg(TRUE, "desc")} :
              /\ AfterList(sort, dir).resp.status = 200
              /\ AfterList(sort, dir).resp.kind = "Posts"
    /\ \A title \in TitleQueries, content \in ContentQueries :
          /\ AfterSearch(title, content).resp.status = 200
          /\ AfterSearch(title, content).resp.kind = "Posts"

\* C19: with requests handled one at a time, every stored id is at least
\* 1 and less than the counter, and the collection is in strictly
\* increasing order of id.
C19_IdsAscending ==
    /\ \A i \in 1..Len(POSTS) : 1 <= POSTS[i].id /\ POSTS[i].id < next_id
    /\ \A i, j \in 1..Len(POSTS) : i < j => POSTS[i].id < POSTS[j].id

\* C19 witness: posts were deleted and created in turn, leaving ids 2 and
\* 4 with the counter at 5.
C19_Witness ==
    /\ PostIdsOf(POSTS) = <<2, 4>>
    /\ next_id = 5
    /\ deleted = {1, 3}

(* ------------------- a session from a fresh instance ------------------ *)

txt_T == <<84>>
txt_Updated == <<85, 112, 100, 97, 116, 101, 100>>

\* A whole request: the operation, the post_id of its route, its body and
\* its query parameters (those it does not have are 0, NoBody, NoArg and
\* NoText).
Request(op, post_id, body, sort, dir, title, content) ==
    [op |-> op, post_id |-> post_id, body |-> body, sort |-> sort,
     dir |-> dir, title |-> title, content |-> content]

NoBody == Plain("none")
ListReq(sort, dir) == Request("list", 0, NoBody, sort, dir, NoText, NoText)
CreateReq(body) == Request("create", 0, body, NoArg, NoArg, NoText, NoText)
DeleteReq(id) == Request("delete", id, NoBody, NoArg, NoArg, NoText, NoText)
UpdateReq(id, body) == Request("update", id, body, NoArg, NoArg, NoText, NoText)
SearchReq(title, content) ==
    Request("search", 0, NoBody, NoArg, NoArg, title, content)

\* The route of a request: what its handler can leave behind.
Run(r, posts, nid) ==
    CASE r.op = "list" -> {get_posts(posts, nid, r.sort, r.dir)}
      [] r.op = "create" ->
            {create_post(posts, nid, data) : data \in get_json(r.body)}
      [] r.op = "delete" -> {delete_post(posts, nid, r.post_id)}
      [] r.op = "update" ->
            {update_post(posts, nid, r.post_id, data) :
                data \in get_json(r.body)}
      [] r.op = "search" -> {search_posts(posts, nid, r.title, r.content)}

\* The session of C18, request by request.
Scenario ==
    << ListReq(NoArg, NoArg),
       CreateReq(Obj({"title", "content"}, Str(txt_T), Str(txt_C))),
       ListReq(Arg(TRUE, "title"), Arg(TRUE, "desc")),
       DeleteReq(1),
       ListReq(NoArg, NoArg),
       UpdateReq(2, Obj({"content"}, NoVal, Str(txt_Updated))) >>

\* The requests tried in a session: those of the scenario and others that
\* leave it.
SessionRequests ==
    Range(Scenario) \cup
    { ListReq(Arg(TRUE, "title"), NoArg),
      ListReq(Arg(TRUE, "content"), Arg(TRUE, "desc")),
      CreateReq(Obj({"title"}, Str(txt_T), NoVal)),
      DeleteReq(2), DeleteReq(3),
      UpdateReq(1, Obj({"title"}, Str(txt_T), NoVal)),
      UpdateReq(3, Obj({"content"}, NoVal, Str(txt_Updated))),
      SearchReq(Arg(TRUE, txt_second), NoText),
      SearchReq(NoText, Arg(TRUE, txt_FIRST)) }

\* How many requests of the scenario have been handled, when the requests
\* handled since the start are exactly its first ones; Off once a request
\* has left it.
Off == 0 - 1
Progress(step, r) ==
    IF step >= 0 /\ step < Len(Scenario) /\ r = Scenario[step + 1]
    THEN step + 1 ELSE Off

SessionInit ==
    /\ POSTS = SeedPosts
    /\ next_id = SeedNextId
    /\ req = [op |-> "none", step |-> 0]
    /\ resp = NoResp
    /\ assigned = <<1, 2>>
    /\ deleted = {}
    /\ threads = NoThreads

\* One request of the session handled to its end.
SessionStep(r) ==
    \E out \in Run(r, POSTS, next_id) :
        /\ Handled([op |-> r.op, step |-> Progress(req.step, r)], out)
        /\ assigned' = IF r.op = "create" /\ out.resp.status = 201
                       THEN Append(assigned, out.resp.id) ELSE assigned
        /\ deleted' = IF r.op = "delete" /\ out.resp.status = 200
                      THEN deleted \cup {r.post_id} ELSE deleted

SessionNext == \E r \in SessionRequests : SessionStep(r)

SessionSpec == SessionInit /\ [][SessionNext]_vars

\* C18: from a fresh instance, list is answered with the two seed posts
\* (ids 1, 2); create of T/C with 201 and id 3; list sorted by title
\* descending with the three posts in the order 3, 2, 1; delete of id 1
\* with 200; list with ids 2, 3; update of id 2 with content Updated alone
\* with id 2, the title "Second post" and the content "Updated".
C18_Scenario ==
    /\ req.step = 1 => resp = Resp(200, "Posts", SeedPosts, <<>>, 0)
    /\ req.step = 2 =>
          resp = Resp(201, "Post", <<Post(3, Str(txt_T), Str(txt_C))>>, <<>>, 3)
    /\ req.step = 3 =>
          /\ resp.status = 200
          /\ PostIdsOf(resp.posts) = <<3, 2, 1>>
          /\ Range(resp.posts) = Range(POSTS)
    /\ req.step = 4 =>
          /\ resp = Resp(200, "Deleted", <<>>, <<>>, 1)
          /\ 1 \notin Ids(POSTS)
    /\ req.step = 5 =>
          /\ resp.status = 200
          /\ resp.posts = POSTS
          /\ PostIdsOf(resp.posts) = <<2, 3>>
    /\ req.step = 6 =>
          /\ resp = Resp(200, "Post",
                         <<Post(2, Str(txt_Second_post), Str(txt_Updated))>>,
                         <<>>, 2)
          /\ POSTS = << Post(2, Str(txt_Second_post), Str(txt_Updated)),
                        Post(3, Str(txt_T), Str(txt_C)) >>

\* C18 witness: the six requests of the scenario have been handled.
C18_Witness == req.step = 6

(* --------------------- handlers running concurrently ------------------ *)
(* app.run() serves each request on a thread of its own, and no handler   *)
(* takes a lock: the handlers of create, delete and update interleave     *)
(* between their reads and writes of POSTS and next_id.  Every dict has   *)
(* an identity, obj, so that a post found by one handler is the same      *)
(* object in every list that holds it; a write to the object is seen      *)
(* through all of them.                                                   *)

\* The requests that can be in flight at once.
MaxThreads == 2
Threads == 1..MaxThreads

Tag(post, k) ==
    [id |-> post.id, title |-> post.title, content |-> post.content,
     obj |-> k]
Untag(post) == Post(post.id, post.title, post.content)
UntagAll(posts) == [i \in 1..Len(posts) |-> Untag(posts[i])]
NoPost == Tag(Post(0, NoVal, NoVal), 0)

\* post[field] = value on the object k, as seen through a reference and
\* through a list.
WritePost(post, k, field, value) ==
    IF post.obj = k THEN [post EXCEPT ![field] = value] ELSE post
WriteList(posts, k, field, value) ==
    [i \in 1..Len(posts) |-> WritePost(posts[i], k, field, value)]

\* A handler in flight: where it is (pc), its request r, the value of
\* request.get_json() (data), the dict it holds (new_post of create, post
\* of update), the list delete has built, the value of next_id loaded by
\* `next_id += 1`, and its answer once it has returned.
Thread(pc, r, data, post, list, tmp, answer) ==
    [pc |-> pc, r |-> r, data |-> data, post |-> post, list |-> list,
     tmp |-> tmp, resp |-> answer]

NoRequest == Request("none", 0, NoBody, NoArg, NoArg, NoText, NoText)
Idle == Thread("idle", NoRequest, NoBody, NoPost, <<>>, 0, NoResp)

ConcurrentRequests ==
    { CreateReq(Obj({"title", "content"}, Str(<<>>), Str(txt_C))),
      CreateReq(Obj({"title"}, Str(<<>>), NoVal)),
      DeleteReq(1), DeleteReq(2), DeleteReq(3) }
    \cup
    { UpdateReq(id, body) :
        id \in {1, 3},
        body \in { Obj({"title"}, Str(<<>>), NoVal),
                   Obj({"content"}, NoVal, Str(txt_C)),
                   Arr(<<>>), Plain("null") } }

ConcInit ==
    /\ POSTS = [i \in 1..Len(SeedPosts) |-> Tag(SeedPosts[i], i)]
    /\ next_id = SeedNextId
    /\ req = NoReq
    /\ resp = NoResp
    /\ assigned = <<1, 2>>
    /\ deleted = {}
    /\ threads = [t \in Threads |-> Idle]

\* The thread t goes on as th; nothing shared is written.
Local(t, th) ==
    /\ threads' = [threads EXCEPT ![t] = th]
    /\ UNCHANGED <<POSTS, next_id, req, resp, assigned, deleted>>

Returned(th, answer) == [th EXCEPT !.pc = "done", !.resp = answer]

\* A request arrives: request.get_json() and the checks of the body, which
\* read nothing shared (lines 54-64 and 103-106).
Start(t, r) ==
    /\ threads[t].pc = "idle"
    /\ \E data \in (IF r.op = "delete" THEN {NoBody} ELSE get_json(r.body)) :
          LET th == [threads[t] EXCEPT !.r = r, !.data = data]
              refused == create_post(<<>>, 0, data).resp
          IN
          CASE r.op = "create" ->
                 IF refused.status # 201
                 THEN Local(t, Returned(th, refused))
                 ELSE Local(t, [th EXCEPT !.pc = "c_build"])
            [] r.op = "delete" -> Local(t, [th EXCEPT !.pc = "d_find"])
            [] r.op = "update" ->
                 IF data.kind \in {"abort", "None"}
                 THEN Local(t, Returned(th,
                                 update_post(<<>>, 0, r.post_id, data).resp))
                 ELSE Local(t, [th EXCEPT !.pc = "u_find"])

\* Lines 66-70: new_post is built with the next_id read now.
CBuild(t) ==
    /\ threads[t].pc = "c_build"
    /\ threads' = [threads EXCEPT ![t] =
          [@ EXCEPT !.pc = "c_append",
                    !.post = Tag(new_post(next_id, threads[t].data),
                                 Len(assigned) + 1)]]
    /\ assigned' = Append(assigned, next_id)
    /\ UNCHANGED <<POSTS, next_id, req, resp, deleted>>

\* Line 71: POSTS.append(new_post), on the list POSTS names now.
CAppend(t) ==
    /\ threads[t].pc = "c_append"
    /\ POSTS' = Append(POSTS, threads[t].post)
    /\ threads' = [threads EXCEPT ![t].pc = "c_load"]
    /\ UNCHANGED <<next_id, req, resp, assigned, deleted>>

\* Line 72, first half: next_id is loaded.
CLoad(t) ==
    /\ threads[t].pc = "c_load"
    /\ Local(t, [threads[t] EXCEPT !.pc = "c_store", !.tmp = next_id])

\* Line 72, second half, and line 73: the sum is stored and new_post is
\* returned.
CStore(t) ==
    /\ threads[t].pc = "c_store"
    /\ next_id' = Increment(threads[t].tmp)
    /\ threads' = [threads EXCEPT ![t] =
          Returned(@, Resp(201, "Post", <<Untag(@.post)>>, <<>>, @.post.id))]
    /\ UNCHANGED <<POSTS, req, resp, assigned, deleted>>

\* Lines 85-88: the lookup.
DFind(t) ==
    /\ threads[t].pc = "d_find"
    /\ LET th == threads[t] IN
       IF Find(POSTS, th.r.post_id) = 0
       THEN Local(t, Returned(th, Resp(404, "PostNotFound", <<>>, <<>>,
                                       th.r.post_id)))
       ELSE Local(t, [th EXCEPT !.pc = "d_filter"])

\* Line 90, right-hand side: the new list is built from POSTS.
DFilter(t) ==
    /\ threads[t].pc = "d_filter"
    /\ Local(t, [threads[t] EXCEPT
                    !.pc = "d_store",
                    !.list = Without(POSTS, threads[t].r.post_id)])

\* Line 90, the assignment, and line 91.
DStore(t) ==
    /\ threads[t].pc = "d_store"
    /\ POSTS' = threads[t].list
    /\ deleted' = deleted \cup {threads[t].r.post_id}
    /\ threads' = [threads EXCEPT ![t] =
          Returned(@, Resp(200, "Deleted", <<>>, <<>>, @.r.post_id))]
    /\ UNCHANGED <<next_id, req, resp, assigned>>

\* Lines 108-109 and 114: the loop finds the post, or ends without it.
UFind(t) ==
    /\ threads[t].pc = "u_find"
    /\ LET th == threads[t]
           at == Find(POSTS, th.r.post_id)
       IN  IF at = 0
           THEN Local(t, Returned(th, Resp(404, "PostNotFound", <<>>, <<>>,
                                           th.r.post_id)))
           ELSE Local(t, [th EXCEPT !.pc = "u_title", !.post = POSTS[at]])

\* The thread t writes a field of the object it holds and goes on at pc.
UWrite(t, field, pc) ==
    LET th == threads[t]
        k == th.post.obj
        value == Get(th.data, field, th.post[field])
    IN  /\ POSTS' = WriteList(POSTS, k, field, value)
        /\ threads' = [u \in Threads |->
              [threads[u] EXCEPT
                  !.post = WritePost(@, k, field, value),
                  !.list = WriteList(@, k, field, value),
                  !.pc = IF u = t THEN pc ELSE @]]
        /\ UNCHANGED <<next_id, req, resp, assigned, deleted>>

\* Line 110; data.get raises on a body that is no dict.
UTitle(t) ==
    /\ threads[t].pc = "u_title"
    /\ IF GetRaises(threads[t].data)
       THEN Local(t, Returned(threads[t], Fault))
       ELSE UWrite(t, "title", "u_content")

\* Line 111.
UContent(t) ==
    /\ threads[t].pc = "u_content"
    /\ UWrite(t, "content", "u_return")

\* Line 112: the post as it is now is returned.
UReturn(t) ==
    /\ threads[t].pc = "u_return"
    /\ Local(t, Returned(threads[t],
                   Resp(200, "Post", <<Untag(threads[t].post)>>, <<>>,
                        threads[t].r.post_id)))

ConcNext ==
    \E t \in Threads :
        \/ \E r \in ConcurrentRequests : Start(t, r)
        \/ CBuild(t)
        \/ CAppend(t)
        \/ CLoad(t)
        \/ CStore(t)
        \/ DFind(t)
        \/ DFilter(t)
        \/ DStore(t)
        \/ UFind(t)
        \/ UTitle(t)
        \/ UContent(t)
        \/ UReturn(t)

ConcSpec == ConcInit /\ [][ConcNext]_vars

AllDone == \A t \in Threads : threads[t].pc = "done"

\* C11: with creates in flight at once, no two posts get the same id, and
\* when every handler has returned the counter is its starting value plus
\* the number of creates answered 201.
C11_ConcurrentCreates ==
    /\ NoRepeat(PostIdsOf(POSTS))
    /\ AllDone =>
          next_id = SeedNextId
                    + Cardinality({t \in Threads : threads[t].resp.status = 201})


\* The handlers of the threads run one after the other, in the given
\* order, each as a whole and on the body it received.
Serial(order) ==
    LET RECURSIVE From(_, _, _, _)
        From(i, posts, nid, answers) ==
            IF i > Len(order)
            THEN [posts |-> posts, nid |-> nid, answers |-> answers]
            ELSE LET th == threads[order[i]]
                     out == CASE th.r.op = "create" ->
                                   create_post(posts, nid, th.data)
                              [] th.r.op = "delete" ->
                                   delete_post(posts, nid, th.r.post_id)
                              [] th.r.op = "update" ->
                                   update_post(posts, nid, th.r.post_id,
                                               th.data)
                 IN  From(i + 1, out.posts, out.nid,
                          [answers EXCEPT ![order[i]] = out.resp])
    IN  From(1, SeedPosts, SeedNextId, [t \in Threads |-> NoResp])

Orders ==
    { order \in [Threads -> Threads] :
        \A t, u \in Threads : t # u => order[t] # order[u] }

SameAsSerial(order) ==
    LET serial == Serial(order) IN
    /\ UntagAll(POSTS) = serial.posts
    /\ \A t \in Threads : threads[t].resp = serial.answers[t]

\* C12: when every handler has returned, the list and the answers are
\* those of the same requests handled one at a time in some order: no
\* delete and no create is lost.
C12_Serializable ==
    AllDone => \E order \in Orders : SameAsSerial(order)

====
